---- MODULE Spec2Model ----
(***************************************************************************)
(* Model of inverter_digital_twin.py: one run of the dashboard script over *)
(* a list of uploaded CSV files.                                           *)
(*                                                                         *)
(* Numbers.  The script computes in IEEE doubles.  A number is modelled as *)
(* an exact rational with a sign (so that -0.0 exists), or an infinity, or *)
(* NaN; the special values follow IEEE 754 (x/0 = inf, 0/0 = NaN, NaN      *)
(* propagates, every comparison with NaN is false).  Rounding of finite    *)
(* results is not modelled.  A blank CSV cell is read by pandas as NaN.    *)
(*                                                                         *)
(* Time.  A timestamp is a whole number of hours; datetime.now() is an     *)
(* input read by the section that calls it.                                *)
(***************************************************************************)
EXTENDS Integers, Sequences, FiniteSets

VARIABLES uploaded_files, pc, file_i, dfs, processed, df_all,
          selected_section, messages, view

vars == <<uploaded_files, pc, file_i, dfs, processed, df_all,
          selected_section, messages, view>>

(***************************************************************************)
(* Bounds of the model.                                                    *)
(***************************************************************************)
MaxFiles == 2

MaxRows == 2

(***************************************************************************)
(* IEEE-style numbers.                                                     *)
(***************************************************************************)
RECURSIVE GCD(_, _)
GCD(a, b) == IF b = 0 THEN a ELSE GCD(b, a % b)

NaN == [k |-> "nan", s |-> 1, n |-> 0, d |-> 1]

Inf(s) == [k |-> "inf", s |-> s, n |-> 0, d |-> 1]

Fin(s, n, d) ==
    LET g == GCD(n, d)
    IN  [k |-> "fin", s |-> s, n |-> n \div g, d |-> d \div g]

FromInt(x) == IF x < 0 THEN Fin(-1, -x, 1) ELSE Fin(1, x, 1)

Rat(p, q) == IF p < 0 THEN Fin(-1, -p, q) ELSE Fin(1, p, q)

IsNaN(a) == a.k = "nan"

IsZero(a) == a.k = "fin" /\ a.n = 0

FNeg(a) == IF IsNaN(a) THEN NaN ELSE [a EXCEPT !.s = -a.s]

FAbs(a) == IF IsNaN(a) THEN NaN ELSE [a EXCEPT !.s = 1]

FMul(a, b) ==
    IF IsNaN(a) \/ IsNaN(b) THEN NaN
    ELSE IF a.k = "inf" \/ b.k = "inf"
         THEN IF IsZero(a) \/ IsZero(b) THEN NaN ELSE Inf(a.s * b.s)
         ELSE Fin(a.s * b.s, a.n * b.n, a.d * b.d)

FDiv(a, b) ==
    IF IsNaN(a) \/ IsNaN(b) THEN NaN
    ELSE IF a.k = "inf"
         THEN IF b.k = "inf" THEN NaN ELSE Inf(a.s * b.s)
         ELSE IF b.k = "inf" THEN Fin(a.s * b.s, 0, 1)
         ELSE IF IsZero(b)
              THEN IF IsZero(a) THEN NaN ELSE Inf(a.s * b.s)
              ELSE Fin(a.s * b.s, a.n * b.d, a.d * b.n)

FAdd(a, b) ==
    IF IsNaN(a) \/ IsNaN(b) THEN NaN
    ELSE IF a.k = "inf"
         THEN IF b.k = "inf" /\ b.s # a.s THEN NaN ELSE a
         ELSE IF b.k = "inf" THEN b
         ELSE LET num == a.s * a.n * b.d + b.s * b.n * a.d
                  den == a.d * b.d
              IN  IF num = 0
                  THEN Fin(IF a.s = -1 /\ b.s = -1 THEN -1 ELSE 1, 0, 1)
                  ELSE IF num < 0 THEN Fin(-1, -num, den) ELSE Fin(1, num, den)

FSub(a, b) == FAdd(a, FNeg(b))

FLt(a, b) ==
    /\ ~IsNaN(a)
    /\ ~IsNaN(b)
    /\ IF a.k = "inf" THEN a.s = -1 /\ ~(b.k = "inf" /\ b.s = -1)
       ELSE IF b.k = "inf" THEN b.s = 1
       ELSE a.s * a.n * b.d < b.s * b.n * a.d

FGe(a, b) == ~IsNaN(a) /\ ~IsNaN(b) /\ ~FLt(a, b)

FGt(a, b) == FLt(b, a)

\* pandas Series.sum(): NaN entries are skipped, the empty sum is 0.
RECURSIVE FSum(_)
FSum(s) ==
    IF s = <<>> THEN FromInt(0)
    ELSE IF IsNaN(Head(s)) THEN FSum(Tail(s))
    ELSE FAdd(Head(s), FSum(Tail(s)))

(***************************************************************************)
(* Sequence helpers.                                                       *)
(***************************************************************************)
RECURSIVE Flatten(_)
Flatten(ss) == IF ss = <<>> THEN <<>> ELSE Head(ss) \o Flatten(Tail(ss))

Column(df, col) == [j \in 1..Len(df) |-> df[j][col]]

\* DataFrame.tail(n): the last n rows.
TailRows(df, n) ==
    IF Len(df) <= n THEN df ELSE SubSeq(df, Len(df) - n + 1, Len(df))

SeqsUpTo(S, n) == UNION {[1..m -> S] : m \in 0..n}

(***************************************************************************)
(* Inputs: uploaded files.  A file has a name, may be unreadable as CSV,   *)
(* has a set of column names and rows.  V_dc and I_dc are never read by    *)
(* the script beyond the column check, so rows carry no values for them.   *)
(***************************************************************************)
AllColumns == {"Time", "Irradiance", "Module_Temp", "V_dc", "I_dc", "P_ac"}

\* A cell holding a whole number; a blank cell is NaN.
Cells(S) == {FromInt(x) : x \in S}

MkRow(t, irr, temp, pac) ==
    [Time |-> t, Irradiance |-> FromInt(irr), Module_Temp |-> FromInt(temp),
     P_ac |-> FromInt(pac)]

MkFile(name, readable, columns, rows) ==
    [name |-> name, readable |-> readable, columns |-> columns, rows |-> rows]

\* Batch inputs: several files, possibly sharing a name, rows in any order.
BatchNames == {"inv1.csv", "inv2.csv"}

BatchRows == {MkRow(1, 0, 25, 5), MkRow(2, 1000, 25, 380)}

BatchColumnSets ==
    {AllColumns \ {"P_ac"}, AllColumns \ {"V_dc", "I_dc"}, AllColumns \ {"Time"}}

BatchFiles ==
    {MkFile(nm, TRUE, AllColumns, rows) :
        nm \in BatchNames, rows \in SeqsUpTo(BatchRows, MaxRows)}
    \cup {MkFile(nm, TRUE, cols, <<MkRow(1, 0, 25, 5)>>) :
        nm \in BatchNames, cols \in BatchColumnSets}
    \cup {MkFile(nm, FALSE, AllColumns, <<MkRow(1, 0, 25, 5)>>) : nm \in BatchNames}

\* Sample inputs: one file whose first row ranges over a wider set of values,
\* alone or followed by one batch row.
SampleRows ==
    {[Time |-> 2, Irradiance |-> irr, Module_Temp |-> temp, P_ac |-> pac] :
        irr \in Cells({0, 800, 1000}) \cup {NaN},
        temp \in Cells({25, 30, 300}),
        pac \in Cells({0, 5, 380, 5130, 5700, 6270}) \cup {NaN}}

SampleFiles ==
    {MkFile("inv1.csv", TRUE, AllColumns, <<r>>) : r \in SampleRows}
    \cup {MkFile("inv1.csv", TRUE, AllColumns, <<r, b>>) : r \in SampleRows, b \in BatchRows}

Uploads ==
    SeqsUpTo(BatchFiles, MaxFiles) \cup {<<f>> : f \in SampleFiles}

\* Values datetime.now() takes, in hours.
Nows == {2, 73, 74}

Sections == {"Overview", "Performance", "Digital Twin", "Alerts", "Predictions"}

(***************************************************************************)
(* Load Data (lines 18-29).                                                *)
(***************************************************************************)
\* pd.read_csv(file, parse_dates=["Time"]).set_index("Time"): raises when the
\* file is no CSV or has no Time column; Time becomes the index.
ReadCsv(file) ==
    [raised  |-> ~file.readable \/ "Time" \notin file.columns,
     columns |-> file.columns \ {"Time"},
     rows    |-> file.rows]

Required == {"Irradiance", "Module_Temp", "V_dc", "I_dc", "P_ac"}

HasRequiredAny(columns) == \E col \in Required : col \in columns

HasRequired(columns) == \A col \in Required : col \in columns

MissingColumns(columns) == Required \ columns

\* dfs[name] = df on an insertion-ordered dict.
DictSet(d, name, df) ==
    IF \E j \in 1..Len(d) : d[j].name = name
    THEN [j \in 1..Len(d) |->
            IF d[j].name = name THEN [name |-> name, df |-> df] ELSE d[j]]
    ELSE Append(d, [name |-> name, df |-> df])

TruthyAlways(files) == TRUE

Truthy(files) == Len(files) > 0

(***************************************************************************)
(* Combine All Data (lines 40-55).                                         *)
(***************************************************************************)
PDC0 == 6000

GAMMA == Rat(-4, 1000)

INV_EFF == Rat(95, 100)

ExpectedACPower(irr, temp) ==
    FMul(FMul(FMul(FromInt(PDC0), FDiv(irr, FromInt(1000))),
              FAdd(FromInt(1), FMul(GAMMA, FSub(temp, FromInt(25))))),
         INV_EFF)

ReplaceNothing(x) == x

\* Series.replace(0, 1): -0.0 equals 0 and is replaced too, NaN is kept.
Replace01(x) == IF IsZero(x) THEN FromInt(1) ELSE x

Deviation(pac, expected) ==
    FDiv(FMul(FromInt(100), FSub(pac, expected)), Replace01(expected))

StatusInclusive(x) ==
    IF FLt(FAbs(x), FromInt(10)) \/ FAbs(x) = FromInt(10) THEN "OK" ELSE "Alert"

Status(x) == IF FLt(FAbs(x), FromInt(10)) THEN "OK" ELSE "Alert"

ProcessRow(name, row) ==
    LET expected == ExpectedACPower(row.Irradiance, row.Module_Temp)
        dev      == Deviation(row.P_ac, expected)
    IN  [Time              |-> row.Time,
         Irradiance        |-> row.Irradiance,
         Module_Temp       |-> row.Module_Temp,
         P_ac              |-> row.P_ac,
         Expected_AC_Power |-> expected,
         Deviation         |-> dev,
         Status            |-> Status(dev),
         Inverter          |-> name,
         timestamp         |-> row.Time]

ProcessFrame(name, df) == [j \in 1..Len(df) |-> ProcessRow(name, df[j])]

\* The frames are extended in place, so dfs holds the processed frames as well.
ProcessAll(d) ==
    [j \in 1..Len(d) |-> [name |-> d[j].name, df |-> ProcessFrame(d[j].name, d[j].df)]]

Concat(frames) == Flatten(frames)

(***************************************************************************)
(* Sections (lines 58-140).                                                *)
(***************************************************************************)
Today(df, now) ==
    LET same(r) == r.timestamp \div 24 = now \div 24 IN SelectSeq(df, same)

Since(df, cutoff) ==
    LET later(r) == r.timestamp > cutoff IN SelectSeq(df, later)

Theoretical(df) ==
    FDiv(FMul(FSum(Column(df, "Irradiance")), FromInt(PDC0)), FromInt(1000))

PerformanceRatio(df) ==
    FMul(FDiv(FSum(Column(df, "P_ac")), Theoretical(df)), FromInt(100))

CUF(df) ==
    FMul(FDiv(FSum(Column(df, "P_ac")), FromInt(PDC0 * 3 * 24)), FromInt(100))

TwinDeviation(df) ==
    [j \in 1..Len(df) |->
        FMul(FDiv(FSub(df[j].P_ac, df[j].Expected_AC_Power),
                  df[j].Expected_AC_Power), FromInt(100))]

PredictedDeviation(df) ==
    [j \in 1..Len(df) |->
        FDiv(FSub(df[j].Expected_AC_Power, df[j].P_ac), df[j].Expected_AC_Power)]

Alerts(df) ==
    LET isAlert(r) == r.Status = "Alert" IN SelectSeq(df, isAlert)

AlertTable(alerts) ==
    TailRows([j \in 1..Len(alerts) |->
                [timestamp         |-> alerts[j].timestamp,
                 Inverter          |-> alerts[j].Inverter,
                 P_ac              |-> alerts[j].P_ac,
                 Expected_AC_Power |-> alerts[j].Expected_AC_Power,
                 Deviation         |-> alerts[j].Deviation]], 30)

Msg(level, kind, name, detail) ==
    [level |-> level, kind |-> kind, name |-> name, detail |-> detail]

(***************************************************************************)
(* The run.                                                                *)
(***************************************************************************)
Init ==
    /\ uploaded_files \in Uploads
    /\ pc = "start"
    /\ file_i = 1
    /\ dfs = <<>>
    /\ processed = <<>>
    /\ df_all = <<>>
    /\ selected_section = "none"
    /\ messages = <<>>
    /\ view = [kind |-> "none"]

\* line 16, true branch: dfs = {} and the loop starts.
BeginLoad ==
    /\ pc = "start"
    /\ Truthy(uploaded_files)
    /\ pc' = "load"
    /\ file_i' = 1
    /\ dfs' = <<>>
    /\ UNCHANGED <<uploaded_files, processed, df_all, selected_section, messages, view>>

\* lines 146-147: nothing uploaded.
NoUpload ==
    /\ pc = "start"
    /\ ~Truthy(uploaded_files)
    /\ messages' = Append(messages, Msg("info", "no_upload", "", {}))
    /\ pc' = "done"
    /\ UNCHANGED <<uploaded_files, file_i, dfs, processed, df_all, selected_section, view>>

\* lines 20-22 raise, lines 28-29 report; the loop goes on.
LoadFileReadError ==
    /\ pc = "load"
    /\ file_i <= Len(uploaded_files)
    /\ LET file == uploaded_files[file_i]
       IN  /\ ReadCsv(file).raised
           /\ messages' = Append(messages, Msg("error", "read", file.name, {}))
    /\ file_i' = file_i + 1
    /\ UNCHANGED <<uploaded_files, pc, dfs, processed, df_all, selected_section, view>>

\* lines 24-26: a required column is absent; report and continue.
LoadFileMissingColumns ==
    /\ pc = "load"
    /\ file_i <= Len(uploaded_files)
    /\ LET file == uploaded_files[file_i]
           csv  == ReadCsv(file)
       IN  /\ ~csv.raised
           /\ ~HasRequired(csv.columns)
           /\ messages' = Append(messages,
                  Msg("error", "missing_columns", file.name, MissingColumns(csv.columns)))
    /\ file_i' = file_i + 1
    /\ UNCHANGED <<uploaded_files, pc, dfs, processed, df_all, selected_section, view>>

\* line 27: the frame is stored under the file's name.
LoadFileOk ==
    /\ pc = "load"
    /\ file_i <= Len(uploaded_files)
    /\ LET file == uploaded_files[file_i]
           csv  == ReadCsv(file)
       IN  /\ ~csv.raised
           /\ HasRequired(csv.columns)
           /\ dfs' = DictSet(dfs, file.name, csv.rows)
    /\ file_i' = file_i + 1
    /\ UNCHANGED <<uploaded_files, pc, processed, df_all, selected_section, messages, view>>

\* lines 31-33: no file was loaded; st.stop() ends the run.
NoValidFiles ==
    /\ pc = "load"
    /\ file_i > Len(uploaded_files)
    /\ dfs = <<>>
    /\ messages' = Append(messages, Msg("warning", "no_valid_files", "", {}))
    /\ pc' = "stopped"
    /\ UNCHANGED <<uploaded_files, file_i, dfs, processed, df_all, selected_section, view>>

\* lines 35-55: the section is chosen, every frame is extended, all are concatenated.
CombineAllData ==
    /\ pc = "load"
    /\ file_i > Len(uploaded_files)
    /\ dfs # <<>>
    /\ \E s \in Sections : selected_section' = s
    /\ dfs' = ProcessAll(dfs)
    /\ processed' = Column(ProcessAll(dfs), "df")
    /\ df_all' = Concat(Column(ProcessAll(dfs), "df"))
    /\ pc' = "section"
    /\ UNCHANGED <<uploaded_files, file_i, messages, view>>

\* lines 58-82, then the footer.
Overview ==
    /\ pc = "section"
    /\ selected_section = "Overview"
    /\ \E now \in Nows :
         LET today_data == Today(df_all, now)
         IN  IF today_data # <<>>
             THEN /\ view' = [kind |-> "overview", now |-> now, chart |-> today_data]
                  /\ UNCHANGED messages
             ELSE /\ view' = [kind |-> "overview", now |-> now, chart |-> <<>>]
                  /\ messages' = Append(messages, Msg("info", "no_data_today", "", {}))
    /\ pc' = "done"
    /\ UNCHANGED <<uploaded_files, file_i, dfs, processed, df_all, selected_section>>

\* lines 85-102, then the footer.
Performance ==
    /\ pc = "section"
    /\ selected_section = "Performance"
    /\ \E now \in Nows :
         LET last_3days == Since(df_all, now - 3 * 24)
         IN  IF last_3days # <<>>
             THEN /\ view' = [kind        |-> "kpi",
                              now         |-> now,
                              last_3days  |-> last_3days,
                              theoretical |-> Theoretical(last_3days),
                              pr          |-> PerformanceRatio(last_3days),
                              cuf         |-> CUF(last_3days)]
                  /\ UNCHANGED messages
             ELSE /\ view' = [kind |-> "kpi_none", now |-> now]
                  /\ messages' = Append(messages, Msg("info", "not_enough_data", "", {}))
    /\ pc' = "done"
    /\ UNCHANGED <<uploaded_files, file_i, dfs, processed, df_all, selected_section>>

\* lines 105-120, then the footer.
DigitalTwin ==
    /\ pc = "section"
    /\ selected_section = "Digital Twin"
    /\ \E now \in Nows :
         LET twin_data == Since(df_all, now - 6)
         IN  IF twin_data # <<>>
             THEN /\ view' = [kind      |-> "twin",
                              now       |-> now,
                              twin_data |-> twin_data,
                              deviation |-> TwinDeviation(twin_data)]
                  /\ UNCHANGED messages
             ELSE /\ view' = [kind |-> "twin_none", now |-> now]
                  /\ messages' = Append(messages, Msg("info", "no_recent_data", "", {}))
    /\ pc' = "done"
    /\ UNCHANGED <<uploaded_files, file_i, dfs, processed, df_all, selected_section>>

\* lines 123-130, then the footer.
AlertsSection ==
    /\ pc = "section"
    /\ selected_section = "Alerts"
    /\ LET alerts == Alerts(df_all)
       IN  /\ view' = [kind   |-> "alerts",
                       alerts |-> alerts,
                       table  |-> IF alerts # <<>> THEN AlertTable(alerts) ELSE <<>>]
           /\ messages' =
                IF alerts # <<>>
                THEN Append(messages, Msg("warning", "alert_count", "", {Len(alerts)}))
                ELSE Append(Append(messages, Msg("warning", "alert_count", "", {0})),
                            Msg("success", "no_alerts", "", {}))
    /\ pc' = "done"
    /\ UNCHANGED <<uploaded_files, file_i, dfs, processed, df_all, selected_section>>

\* lines 133-140, then the footer.
Predictions ==
    /\ pc = "section"
    /\ selected_section = "Predictions"
    /\ \E now \in Nows :
         LET pred_data == Since(df_all, now - 3 * 24)
         IN  view' = [kind      |-> "predictions",
                      now       |-> now,
                      pred_data |-> pred_data,
                      predicted_deviation |-> PredictedDeviation(pred_data)]
    /\ messages' = Append(messages, Msg("info", "maintenance_suggestion", "", {}))
    /\ pc' = "done"
    /\ UNCHANGED <<uploaded_files, file_i, dfs, processed, df_all, selected_section>>

Next ==
    \/ BeginLoad
    \/ NoUpload
    \/ LoadFileReadError
    \/ LoadFileMissingColumns
    \/ LoadFileOk
    \/ NoValidFiles
    \/ CombineAllData
    \/ Overview
    \/ Performance
    \/ DigitalTwin
    \/ AlertsSection
    \/ Predictions

Spec == Init /\ [][Next]_vars

(***************************************************************************)
(* Vocabulary of the properties.                                           *)
(***************************************************************************)
\* A structurally valid file: readable, with all six required columns.
FileValid(f) == f.readable /\ AllColumns \subseteq f.columns

\* The number of uploaded files the load loop has dealt with.
Seen == IF pc = "start" THEN 0 ELSE file_i - 1

LoadFinished == pc \in {"section", "stopped"} \/ (pc = "done" /\ uploaded_files # <<>>)

Combined == selected_section # "none"

InvalidSeen ==
    LET invalid(j) == ~FileValid(uploaded_files[j])
    IN  SelectSeq([j \in 1..Seen |-> j], invalid)

Errors ==
    LET isError(m) == m.level = "error" IN SelectSeq(messages, isError)

ValidSeenNamed(name) ==
    {j \in 1..Seen : FileValid(uploaded_files[j]) /\ uploaded_files[j].name = name}

LastOf(S) == CHOOSE j \in S : \A l \in S : l <= j

Raw(r) ==
    [Time |-> r.Time, Irradiance |-> r.Irradiance, Module_Temp |-> r.Module_Temp,
     P_ac |-> r.P_ac]

RawFrame(df) == [j \in 1..Len(df) |-> Raw(df[j])]

Tagged(name, df) == [j \in 1..Len(df) |-> [Inverter |-> name, row |-> Raw(df[j])]]

SortedByTime(df) ==
    \A a, b \in 1..Len(df) : a < b => df[a].timestamp <= df[b].timestamp

UniqueTimes(df) ==
    \A a, b \in 1..Len(df) : a # b => df[a].Time # df[b].Time

NumericWindow(df) ==
    \A j \in 1..Len(df) : ~IsNaN(df[j].Irradiance) /\ ~IsNaN(df[j].P_ac)

Ten == FromInt(10)

Hundred == FromInt(100)

(***************************************************************************)
(* C1.  As claimed: for every sample the status is Alert exactly when the  *)
(* absolute deviation is >= 10, and OK otherwise.                          *)
(***************************************************************************)
C1_AlertIffAtLeastThreshold ==
    \A j \in 1..Len(df_all) :
        /\ df_all[j].Status = "Alert" <=> FGe(FAbs(df_all[j].Deviation), Ten)
        /\ df_all[j].Status = "OK" <=> ~FGe(FAbs(df_all[j].Deviation), Ten)

\* C1, amended: a sample whose deviation is a number is Alert when its absolute
\* value is >= 10 (exactly +10 and -10 included) and OK when it is < 10; a
\* sample whose deviation is not a number (a blank cell) is Alert.
C1_StatusByThreshold ==
    \A j \in 1..Len(df_all) :
        LET dev == df_all[j].Deviation
            st  == df_all[j].Status
        IN  /\ st \in {"OK", "Alert"}
            /\ FGe(FAbs(dev), Ten) => st = "Alert"
            /\ FLt(FAbs(dev), Ten) => st = "OK"
            /\ IsNaN(dev) => st = "Alert"

\* A sample whose deviation is exactly +10 or -10 has been classified.
C1_Witness ==
    \E j \in 1..Len(df_all) :
        /\ FAbs(df_all[j].Deviation) = Ten
        /\ df_all[j].Status = "Alert"

(***************************************************************************)
(* C2.  For every sample with expected power 0 the deviation is 100 times  *)
(* the actual power; with expected power non-zero it is                    *)
(* 100*(actual-expected)/expected; no division by zero takes place (the    *)
(* deviation is never infinite, and not a number only when an operand is). *)
(***************************************************************************)
C2_DeviationZeroGuard ==
    \A j \in 1..Len(df_all) :
        LET e   == df_all[j].Expected_AC_Power
            a   == df_all[j].P_ac
            dev == df_all[j].Deviation
        IN  /\ IsZero(e) => dev = FMul(Hundred, a)
            /\ ~IsZero(e) => dev = FDiv(FMul(Hundred, FSub(a, e)), e)
            /\ dev.k # "inf"
            /\ IsNaN(dev) => IsNaN(a) \/ IsNaN(e)

\* A sample with expected power 0 and a non-zero actual power has been classified.
C2_Witness ==
    \E j \in 1..Len(df_all) :
        /\ IsZero(df_all[j].Expected_AC_Power)
        /\ df_all[j].P_ac = FromInt(5)
        /\ df_all[j].Deviation = FromInt(500)

C4_EmptyUploadNoData ==
    uploaded_files = <<>> =>
        /\ pc \in {"start", "done"}
        /\ dfs = <<>>
        /\ processed = <<>>
        /\ df_all = <<>>
        /\ selected_section = "none"
        /\ view = [kind |-> "none"]
        /\ messages = IF pc = "done" THEN <<Msg("info", "no_upload", "", {})>> ELSE <<>>

\* The run over an empty upload set has ended.
C4_Witness == uploaded_files = <<>> /\ pc = "done"

(***************************************************************************)
(* C5.  As claimed: for every sample with irradiance >= 0 and a numeric    *)
(* module temperature the expected AC power is >= 0.                       *)
(***************************************************************************)
C5_ExpectedNonNegative ==
    \A j \in 1..Len(df_all) :
        FGe(df_all[j].Irradiance, FromInt(0)) /\ ~IsNaN(df_all[j].Module_Temp)
            => FGe(df_all[j].Expected_AC_Power, FromInt(0))

(***************************************************************************)
(* C6.  As claimed: when KPIs are computed over a window of numeric        *)
(* samples, the Performance Ratio is never obtained by dividing by a zero  *)
(* theoretical energy, and it is undefined (not a number) whenever the     *)
(* theoretical energy is not greater than 0.                               *)
(***************************************************************************)
C6_PRUndefinedWithoutTheoreticalEnergy ==
    view.kind = "kpi" /\ NumericWindow(view.last_3days) =>
        /\ ~IsZero(view.theoretical)
        /\ ~FGt(view.theoretical, FromInt(0)) => IsNaN(view.pr)

(***************************************************************************)
(* C7.  As claimed: the fleet dataset is ordered by time, and so are the   *)
(* alert list and the alert table taken from it.                           *)
(***************************************************************************)
C7_FleetAndAlertsTimeOrdered ==
    /\ SortedByTime(df_all)
    /\ view.kind = "alerts" => SortedByTime(view.alerts) /\ SortedByTime(view.table)

(***************************************************************************)
(* C8.  As claimed: a file with two rows of the same timestamp is not      *)
(* loaded, so no loaded frame holds a timestamp twice.                     *)
(***************************************************************************)
C8_DuplicateTimestampsRejected ==
    \A e \in 1..Len(dfs) : UniqueTimes(dfs[e].df)

(***************************************************************************)
(* C9.  As claimed: CUF (as a percentage) is the actual energy divided by  *)
(* rated capacity times total duration, the duration being the number of   *)
(* samples of the window times the sampling interval (the spacing of the   *)
(* window's first two samples).                                            *)
(***************************************************************************)
C9_CUFScalesWithSampleCount ==
    view.kind = "kpi" /\ NumericWindow(view.last_3days) /\ Len(view.last_3days) >= 2 =>
        LET w  == view.last_3days
            dt == w[2].timestamp - w[1].timestamp
            actual_energy == FMul(FSum(Column(w, "P_ac")), FromInt(dt))
            total_duration_hours == Len(w) * dt
        IN  dt > 0 =>
              view.cuf = FMul(FDiv(actual_energy, FromInt(PDC0 * total_duration_hours)),
                              Hundred)

(***************************************************************************)
(* C10.  As claimed: once the load loop has finished, there are as many    *)
(* loaded series as valid uploaded files.                                  *)
(***************************************************************************)
C10_OneSeriesPerValidFile ==
    LoadFinished =>
        Len(dfs) = Cardinality({j \in 1..Len(uploaded_files) : FileValid(uploaded_files[j])})

====
